---- MODULE Spec2Model ----
(***************************************************************************)
(* Model of functions/main.py of smart-alert-server: the Firebase cloud    *)
(* functions that group citizen alerts by phenomenon and place, keep a     *)
(* counter per group, sweep old alerts and purge groups or single alerts.  *)
(*                                                                         *)
(* The Realtime Database is a tree; it is modelled as a function from the  *)
(* paths of its leaves to their values, so that a node exists exactly when *)
(* some leaf lies at or below it (the database keeps no empty node).       *)
(* Every handler is a sequence of steps, one per database or geocoding     *)
(* call together with the local computation that follows the call.         *)
(*   Spec     runs the calls of concurrent invocations interleaved.        *)
(*   SpecSeq  runs the invocations one after the other, call by call: an   *)
(*            invocation begins when the one before it has ended.          *)
(***************************************************************************)
EXTENDS Integers, Sequences, FiniteSets, TLC

\* db:      the Realtime Database, leaf path |-> value
\* procs:   the invocations: handler, position, request, locals, result
\* started: the number of invocations begun so far
\* before:  in SpecSeq, the database as it was when the invocation that runs
\*          or ran last began (a history variable: no handler reads it)
VARIABLES db, procs, started, before

vars == <<db, procs, started, before>>

(* ------------------------------ bounds --------------------------------- *)

\* invocations started in one behaviour of Spec / of SpecSeq
MaxConcOps == 2
MaxSeqOps == 3

Procs == {1, 2}

(* ------------------------------ inputs --------------------------------- *)

Phenomena == {"FLOOD", "FIRE"}

FormIDs == {"f1", "f2"}

\* submission times in ms since the epoch: 01:00 and 25:00 after it
T_OLD == 3600 * 1000
T_NEW == 25 * 3600 * 1000
Timestamps == {T_OLD, T_NEW}

\* readings of the clock by the sweep, in ms: T_OLD + 24h, T_OLD + 24h + 1ms,
\* T_OLD + 25h (= T_NEW + 1h)
NowSet == {T_OLD + 86400000, T_OLD + 86400001, T_OLD + 90000000}

TheLocation == [latitude |-> 3798, longitude |-> 2372]

B1 == [northeast |-> [lat |-> 38, lng |-> 24], southwest |-> [lat |-> 37, lng |-> 23]]
B2 == [northeast |-> [lat |-> 39, lng |-> 25], southwest |-> [lat |-> 38, lng |-> 24]]

\* what the geocoding call can come back with: a (place, bounds) pair or an
\* exception (ValueError, or whatever requests raises)
GeocodeOutcomes ==
    { [raised |-> FALSE, place |-> "Kolonaki", bounds |-> B1],
      [raised |-> FALSE, place |-> "Plaka", bounds |-> B2],
      [raised |-> TRUE, place |-> "", bounds |-> B1] }

\* the alert forms written under /alertForms/{uid}/{formID}
GoodForms ==
    { [location |-> TheLocation, criticalWeatherPhenomenon |-> ph, timestamp |-> ts,
       imageURL |-> "img", criticalLevel |-> "HIGH", message |-> "msg"]
        : ph \in Phenomena, ts \in Timestamps }

BadForms ==
    { [criticalWeatherPhenomenon |-> "FLOOD", timestamp |-> T_OLD],
      [location |-> TheLocation, timestamp |-> T_OLD],
      [location |-> TheLocation, criticalWeatherPhenomenon |-> "FLOOD"] }

\* values of event.data.after that are no dict and cannot be iterated: None,
\* when the write is the deletion of the form (a number or a boolean written
\* at the path of the form goes the same way). The value is written as the
\* record of its Python type and text, whose keys no form has
NotIterable == { [py_type |-> "NoneType", py_repr |-> "None"] }

AlertForms == GoodForms \cup BadForms \cup NotIterable

(* ------------------------- the database tree --------------------------- *)

ALERTS == "alertsByPhenomenonAndLocationLast24h"
COUNTS == "alertsByPhenomenonAndLocationCountLast24h"

EmptyDb == [q \in {} |-> 0]

IsPrefix(p, q) == Len(p) <= Len(q) /\ SubSeq(q, 1, Len(p)) = p

Below(d, path) == {q \in DOMAIN d : IsPrefix(path, q)}

\* db.reference(path).get() is not None
Exists(d, path) == Below(d, path) # {}

\* the keys of the dict that db.reference(path).get() returns
Keys(d, path) == {q[Len(path) + 1] : q \in {r \in Below(d, path) : Len(r) > Len(path)}}

\* db.reference(path).delete()
Delete(d, path) == [q \in (DOMAIN d) \ Below(d, path) |-> d[q]]

\* the leaves that a write at path replaces: those at or below it, and a leaf
\* above it (a leaf cannot have children)
Replaced(d, path) == Below(d, path) \cup {q \in DOMAIN d : IsPrefix(q, path)}

\* db.reference(path).set(value), for a value stored as one leaf
Set(d, path, value) ==
    [q \in ((DOMAIN d) \ Replaced(d, path)) \cup {path} |->
        IF q = path THEN value ELSE d[q]]

\* the keys of the value at path, whether it is stored as one leaf (a record)
\* or as a subtree
KeysOfValue(d, path) == IF path \in DOMAIN d THEN DOMAIN d[path] ELSE Keys(d, path)

AlertsPath(phenomenon, place) == <<ALERTS, phenomenon, place>>
FormPath(phenomenon, place, form_id) == <<ALERTS, phenomenon, place, "alertForms", form_id>>
BoundsPath(phenomenon, place) == <<ALERTS, phenomenon, place, "bounds">>
CountPath(phenomenon, place) == <<COUNTS, phenomenon, place>>
CounterPath(phenomenon, place) == <<COUNTS, phenomenon, place, "counter">>

(* --------------------------- pure helpers ------------------------------ *)

\* get_short_place_id: the first 16 hex digits of the SHA-256 of
\* "{place}_{ne.lat}_{ne.lng}_{sw.lat}_{sw.lng}", tabulated for the inputs used
KeyString(place, bounds) ==
    <<place, bounds.northeast.lat, bounds.northeast.lng,
      bounds.southwest.lat, bounds.southwest.lng>>

Sha256Hex16(key_string) ==
    CASE key_string = <<"Kolonaki", 38, 24, 37, 23>> -> "87366685a71c842a"
      [] key_string = <<"Plaka", 39, 25, 38, 24>> -> "d68ed9585c67f15b"

get_short_place_id(place, bounds) == Sha256Hex16(KeyString(place, bounds))

PlaceIds == {get_short_place_id(g.place, g.bounds) : g \in {h \in GeocodeOutcomes : ~h.raised}}

\* the "%H:%M" text of timestamp + 2h (the functions run with a UTC clock),
\* as its four digits
TimeOf(timestamp) ==
    LET minutes == ((timestamp \div 60000) + 120) % 1440
        hh == minutes \div 60
        mm == minutes % 60
    IN  <<hh \div 10, hh % 10, mm \div 10, mm % 10>>

\* alert_form.get(key)
GetOrNone(alert_form, key) == IF key \in DOMAIN alert_form THEN alert_form[key] ELSE "None"

EssentialData(alert_form) ==
    [location |-> GetOrNone(alert_form, "location"),
     timestamp |-> GetOrNone(alert_form, "timestamp"),
     time |-> TimeOf(alert_form["timestamp"]),
     imageURL |-> GetOrNone(alert_form, "imageURL"),
     criticalLevel |-> GetOrNone(alert_form, "criticalLevel"),
     message |-> GetOrNone(alert_form, "message")]

Max(a, b) == IF a >= b THEN a ELSE b

\* counter_ref.get() or 0, for a counter stored as a number
GetOrZero(d, path) == IF path \in DOMAIN d THEN d[path] ELSE 0

(* --------------------------- invocations ------------------------------- *)

NoLocals == [x \in {} |-> 0]

Idle == [op |-> "none", pc |-> "idle", req |-> NoLocals, loc |-> NoLocals, result |-> NoLocals]

\* the handler returned value (or the runtime answered for it)
Return(l, value) ==
    [l EXCEPT !.pc = "done", !.loc = NoLocals, !.result = [raised |-> "", value |-> value]]

\* the handler ended with an exception it did not catch
Raise(l, exception) ==
    [l EXCEPT !.pc = "done", !.loc = NoLocals, !.result = [raised |-> exception, value |-> "None"]]

Goto(l, pc, assigned) == [l EXCEPT !.pc = pc, !.loc = assigned @@ l.loc]

Out(d, l) == [db |-> d, l |-> l]

(* ---------------- categorize_and_store_alert (ingestion) --------------- *)

\* the trigger fires for a write of alert_form under /alertForms/{uid}/{formID};
\* geocode is the answer the geocoding service gives to this invocation
\* the validation of line 101 is outside the try: on a value that is not
\* iterable `key in alert_form` raises TypeError, which leaves the handler
NewIngest(alert_form, formID, geocode) ==
    LET l == [op |-> "ingest", pc |-> "start",
              req |-> [alert_form |-> alert_form, formID |-> formID, geocode |-> geocode],
              loc |-> NoLocals, result |-> NoLocals]
    IN  IF alert_form \in NotIterable
        THEN Raise(l, "TypeError")
        ELSE IF {"location", "criticalWeatherPhenomenon"} \subseteq DOMAIN alert_form
        THEN Goto(l, "geocode", NoLocals)
        ELSE Return(l, "None")

\* get_location_name_and_bounds, get_short_place_id and the local conversions;
\* any exception is caught by the handler, which prints it and returns
IngestGeocode(d, l) ==
    LET g == l.req.geocode
        form == l.req.alert_form
    IN  IF g.raised \/ "timestamp" \notin DOMAIN form
        THEN Out(d, Return(l, "None"))
        ELSE Out(d, Goto(l, "get_place",
                 [place_id |-> get_short_place_id(g.place, g.bounds),
                  bounds |-> g.bounds,
                  phenomenon |-> form["criticalWeatherPhenomenon"],
                  essential_data |-> EssentialData(form)]))

IngestGetPlace(d, l) ==
    Out(d, Goto(l, "set_form",
        [place_exists |-> Exists(d, AlertsPath(l.loc.phenomenon, l.loc.place_id))]))

IngestSetForm(d, l) ==
    Out(Set(d, FormPath(l.loc.phenomenon, l.loc.place_id, l.req.formID), l.loc.essential_data),
        Goto(l, IF l.loc.place_exists THEN "get_counter" ELSE "set_bounds", NoLocals))

IngestSetBounds(d, l) ==
    Out(Set(d, BoundsPath(l.loc.phenomenon, l.loc.place_id), l.loc.bounds),
        Goto(l, "get_counter", NoLocals))

\* a variant that stores the counter it read, without the increment
IngestGetCounter_NoIncrement(d, l) ==
    Out(d, Goto(l, "set_counter",
        [counter |-> GetOrZero(d, CounterPath(l.loc.phenomenon, l.loc.place_id))]))

IngestGetCounter(d, l) ==
    Out(d, Goto(l, "set_counter",
        [counter |-> GetOrZero(d, CounterPath(l.loc.phenomenon, l.loc.place_id)) + 1]))

IngestSetCounter(d, l) ==
    Out(Set(d, CounterPath(l.loc.phenomenon, l.loc.place_id), l.loc.counter),
        Return(l, "None"))

IngestStepFn(d, l) ==
    CASE l.pc = "geocode" -> IngestGeocode(d, l)
      [] l.pc = "get_place" -> IngestGetPlace(d, l)
      [] l.pc = "set_form" -> IngestSetForm(d, l)
      [] l.pc = "set_bounds" -> IngestSetBounds(d, l)
      [] l.pc = "get_counter" -> IngestGetCounter(d, l)
      [] l.pc = "set_counter" -> IngestSetCounter(d, l)

(* ------------------- hourly_cleanup_http (the sweep) ------------------- *)

RetentionSeconds == 86400

\* the database lists the keys of a node in lexicographic order, and the
\* dicts it is parsed into keep that order
KeyOrder ==
    <<"87366685a71c842a", "FIRE", "FLOOD", "alertForms", "bounds",
      "d68ed9585c67f15b", "f1", "f2">>

Rank(key) == CHOOSE i \in 1..Len(KeyOrder) : KeyOrder[i] = key

ItemBefore(a, b) ==
    \/ Rank(a[1]) < Rank(b[1])
    \/ a[1] = b[1] /\ Rank(a[2]) < Rank(b[2])
    \/ a[1] = b[1] /\ a[2] = b[2] /\ Rank(a[3]) < Rank(b[3])

RECURSIVE InOrder(_)
InOrder(S) ==
    IF S = {} THEN <<>>
    ELSE LET first == CHOOSE x \in S : \A y \in S \ {x} : ItemBefore(x, y)
         IN  <<first>> \o InOrder(S \ {first})

\* db.reference(ALERTS).get() or {}
Snapshot(d) == [q \in Below(d, <<ALERTS>>) |-> d[q]]

\* the (phenomenon, place, alert_id) triples of the three nested loops, in
\* the order the loops visit them
LoopItems(phenomena) ==
    InOrder({<<q[2], q[3], q[4]>> : q \in {r \in DOMAIN phenomena : Len(r) >= 4}})

(* The age test of lines 194-195 is made in binary floating point (IEEE 754   *)
(* doubles, 53 bits, round to nearest even): current_timestamp is the clock  *)
(* in seconds, fl(now / 1000), alert_timestamp_seconds is fl(timestamp /     *)
(* 1000), and their difference is rounded once more before it is compared    *)
(* with 86400. The operators below compute that comparison on the integers   *)
(* now and timestamp, in ms, both below 2^31.                                *)

RECURSIVE Pow2(_)
Pow2(k) == IF k = 0 THEN 1 ELSE 2 * Pow2(k - 1)

RECURSIVE Pow2Mod1000(_)
Pow2Mod1000(k) == IF k = 0 THEN 1 ELSE (2 * Pow2Mod1000(k - 1)) % 1000

\* the binary exponent e of ms / 1000, ms > 0: 2^e <= ms / 1000 < 2^(e + 1)
FloatExponent(ms) ==
    CHOOSE e \in -10..21 :
        IF e >= 0
        THEN Pow2(e) <= ms \div 1000 /\ ms \div 1000 < Pow2(e + 1)
        ELSE ms < 1000 /\ 1000 <= ms * Pow2(-e) /\ ms * Pow2(-e) < 2000

\* the doubles near ms / 1000 are the multiples of 2^(-FloatScale(ms))
FloatScale(ms) == 52 - FloatExponent(ms)

\* the rounding error of fl(ms / 1000), in units of 2^(-FloatScale(ms)) / 1000:
\* fl(ms / 1000) = ms / 1000 + FloatError(ms) / (1000 * 2^FloatScale(ms)).
\* The remainder is never 500 (the scale is at least 3), so no tie occurs
FloatError(ms) ==
    LET r == ((ms % 1000) * Pow2Mod1000(FloatScale(ms))) % 1000
    IN  IF r < 500 THEN -r ELSE 1000 - r

\* fl(fl(now / 1000) - fl(timestamp / 1000)) >= seconds. Away from the exact
\* boundary the rounding errors (below 2^-31) cannot change the comparison.
\* On it, the difference is seconds + e1 - e2 with the two rounding errors,
\* and it rounds to a double >= seconds when it is at least seconds minus
\* half the distance to the double below, 2^-(FloatScale(seconds * 1000) + 1)
FloatAgeAtLeast(now, timestamp, seconds) ==
    IF now - timestamp # seconds * 1000
    THEN now - timestamp > seconds * 1000
    ELSE LET k == FloatScale(timestamp) - FloatScale(now)
             j == FloatScale(seconds * 1000) + 1 - FloatScale(now)
             a == FloatError(now) * Pow2(j) + 1000
         IN  IF k >= j
             THEN Pow2(IF k - j > 10 THEN 10 ELSE k - j) * a >= FloatError(timestamp)
             ELSE a >= FloatError(timestamp) * Pow2(j - k)

\* what the loop body does with alert_data = phenomena[phenomenon][place][alert_id]
AlertVerdict(phenomena, item, current_timestamp) ==
    LET path == <<ALERTS, item[1], item[2], item[3]>>
    IN  IF "timestamp" \notin KeysOfValue(phenomena, path) THEN "KeyError"
        ELSE IF path \notin DOMAIN phenomena THEN "TypeError"
        ELSE IF phenomena[path].timestamp = 0 THEN "skip"
        ELSE IF FloatAgeAtLeast(current_timestamp, phenomena[path].timestamp, RetentionSeconds)
             THEN "evict"
        ELSE "keep"

\* the loops run, without a database call, up to the next alert to delete,
\* to an exception or to their end
RECURSIVE SweepLoop(_, _, _)
SweepLoop(d, l, todo) ==
    IF todo = <<>>
    THEN Out(d, Goto(l, "set_last_cleanup", [todo |-> <<>>, phenomena |-> EmptyDb]))
    ELSE LET verdict == AlertVerdict(l.loc.phenomena, Head(todo), l.loc.current_timestamp)
         IN  CASE verdict \in {"KeyError", "TypeError"} -> Out(d, Raise(l, verdict))
               [] verdict = "evict" ->
                    Out(d, Goto(l, "delete_alert",
                        [todo |-> todo,
                         num_of_deleted_alerts |-> l.loc.num_of_deleted_alerts + 1]))
               [] OTHER -> SweepLoop(d, l, Tail(todo))

\* a sweep that serves every method (the check of line 174 left out)
NewSweep_AnyMethod(method, current_timestamp) ==
    Goto([op |-> "sweep", pc |-> "start",
          req |-> [method |-> method, now |-> current_timestamp],
          loc |-> NoLocals, result |-> NoLocals],
         "get_phenomena", [current_timestamp |-> current_timestamp])

\* the request arrives when the clock reads now. The clock is kept in ms:
\* current_timestamp, which the code holds in seconds as a double, is
\* fl(now / 1000), and an alert is old when FloatAgeAtLeast says so
NewSweep(method, current_timestamp) ==
    LET l == [op |-> "sweep", pc |-> "start",
              req |-> [method |-> method, now |-> current_timestamp],
              loc |-> NoLocals, result |-> NoLocals]
    IN  IF method # "POST"
        THEN Return(l, [status |-> 405, body |-> ""])
        ELSE Goto(l, "get_phenomena", [current_timestamp |-> current_timestamp])

SweepGetPhenomena(d, l) ==
    LET phenomena == Snapshot(d)
    IN  SweepLoop(d, Goto(l, "loop", [phenomena |-> phenomena, num_of_deleted_alerts |-> 0]),
                  LoopItems(phenomena))

SweepDeleteAlert(d, l) ==
    LET item == Head(l.loc.todo)
    IN  Out(Delete(d, FormPath(item[1], item[2], item[3])), Goto(l, "get_counter", NoLocals))

SweepGetCounter(d, l) ==
    LET item == Head(l.loc.todo)
    IN  Out(d, Goto(l, "write_counter",
            [counter |-> Max(0, GetOrZero(d, CounterPath(item[1], item[2])) - 1)]))

SweepWriteCounter(d, l) ==
    LET item == Head(l.loc.todo)
        written == IF l.loc.counter = 0
                   THEN Delete(d, CountPath(item[1], item[2]))
                   ELSE Set(d, CounterPath(item[1], item[2]), l.loc.counter)
    IN  SweepLoop(written, l, Tail(l.loc.todo))

\* a sweep that writes its filtered snapshot back over the alerts tree; the
\* loops reach their end only on a snapshot without alerts
SweepSetLastCleanup_WritesSnapshotBack(d, l) ==
    Out(Set(Delete(d, <<ALERTS>>), <<"lastCleanupTimestamp">>, l.loc.current_timestamp),
        Goto(l, "set_num_deleted", NoLocals))

\* a sweep that records the cutoff of the retention window instead of the
\* time at which it ran
SweepSetLastCleanup_RecordsCutoff(d, l) ==
    Out(Set(d, <<"lastCleanupTimestamp">>, l.loc.current_timestamp - RetentionSeconds * 1000),
        Goto(l, "set_num_deleted", NoLocals))

SweepSetLastCleanup(d, l) ==
    Out(Set(d, <<"lastCleanupTimestamp">>, l.loc.current_timestamp),
        Goto(l, "set_num_deleted", NoLocals))

SweepSetNumDeleted(d, l) ==
    Out(Set(d, <<"lastNumOfDeletedAlerts">>, l.loc.num_of_deleted_alerts),
        Return(l, [status |-> 200, body |-> "Cleanup completed"]))

SweepStepFn(d, l) ==
    CASE l.pc = "get_phenomena" -> SweepGetPhenomena(d, l)
      [] l.pc = "delete_alert" -> SweepDeleteAlert(d, l)
      [] l.pc = "get_counter" -> SweepGetCounter(d, l)
      [] l.pc = "write_counter" -> SweepWriteCounter(d, l)
      [] l.pc = "set_last_cleanup" -> SweepSetLastCleanup(d, l)
      [] l.pc = "set_num_deleted" -> SweepSetNumDeleted(d, l)

(* ---------------- delete_alerts_by_location (PurgeBucket) -------------- *)

Success == [success |-> TRUE, message |-> ""]
Failure(message) == [success |-> FALSE, message |-> message]

NewPurgeBucket(phenomenon, place) ==
    [op |-> "purge_bucket", pc |-> "get_phenomena",
     req |-> [phenomenon |-> phenomenon, place |-> place],
     loc |-> NoLocals, result |-> NoLocals]

PurgeBucketGetPhenomena(d, l) ==
    LET phenomena == Snapshot(d)
    IN  IF l.req.phenomenon \in Keys(phenomena, <<ALERTS>>)
        THEN IF l.req.place \in Keys(phenomena, <<ALERTS, l.req.phenomenon>>)
             THEN Out(d, Goto(l, "delete_place", NoLocals))
             ELSE Out(d, Return(l, Failure("Place not found")))
        ELSE Out(d, Return(l, Failure("Phenomenon not found")))

\* a PurgeBucket that deletes the node of the phenomenon, one level too high
PurgeBucketDeletePlace_WholePhenomenon(d, l) ==
    Out(Delete(d, <<ALERTS, l.req.phenomenon>>), Goto(l, "delete_counter", NoLocals))

PurgeBucketDeletePlace(d, l) ==
    Out(Delete(d, AlertsPath(l.req.phenomenon, l.req.place)), Goto(l, "delete_counter", NoLocals))

\* a variant that leaves the counter of the purged bucket in place
PurgeBucketDeleteCounter_Skipped(d, l) == Out(d, Return(l, Success))

PurgeBucketDeleteCounter(d, l) ==
    Out(Delete(d, CountPath(l.req.phenomenon, l.req.place)), Return(l, Success))

PurgeBucketStepFn(d, l) ==
    CASE l.pc = "get_phenomena" -> PurgeBucketGetPhenomena(d, l)
      [] l.pc = "delete_place" -> PurgeBucketDeletePlace(d, l)
      [] l.pc = "delete_counter" -> PurgeBucketDeleteCounter(d, l)

(* -------- delete_alert_by_phenomenon_and_location (PurgeMember) -------- *)

NewPurgeMember(phenomenon, place, alert_id) ==
    [op |-> "purge_member", pc |-> "get_phenomena",
     req |-> [phenomenon |-> phenomenon, place |-> place, alertID |-> alert_id],
     loc |-> NoLocals, result |-> NoLocals]

PurgeMemberGetPhenomena(d, l) ==
    LET phenomena == Snapshot(d)
    IN  IF l.req.phenomenon \in Keys(phenomena, <<ALERTS>>)
        THEN IF l.req.place \in Keys(phenomena, <<ALERTS, l.req.phenomenon>>)
             THEN IF l.req.alertID \in Keys(phenomena, AlertsPath(l.req.phenomenon, l.req.place))
                  THEN Out(d, Goto(l, "delete_alert", NoLocals))
                  ELSE Out(d, Return(l, Failure("Alert not found")))
             ELSE Out(d, Return(l, Failure("Place not found")))
        ELSE Out(d, Return(l, Failure("Phenomenon not found")))

PurgeMemberDeleteAlert(d, l) ==
    Out(Delete(d, <<ALERTS, l.req.phenomenon, l.req.place, l.req.alertID>>),
        Goto(l, "get_counter", NoLocals))

\* counter_ref is the node {phenomenon}/{place} of the counts, not its child
\* "counter": the value read is a number only if a number is stored there;
\* a dict minus 1 is a TypeError, which the handler catches
PurgeMemberGetCounter(d, l) ==
    LET path == CountPath(l.req.phenomenon, l.req.place)
    IN  IF path \notin DOMAIN d /\ Exists(d, path)
        THEN Out(d, Return(l, Failure("An unexpected error occurred")))
        ELSE Out(d, Goto(l, "write_counter", [counter |-> Max(0, GetOrZero(d, path) - 1)]))

PurgeMemberWriteCounter(d, l) ==
    LET path == CountPath(l.req.phenomenon, l.req.place)
    IN  Out(IF l.loc.counter = 0 THEN Delete(d, path) ELSE Set(d, path, l.loc.counter),
            Return(l, Success))

PurgeMemberStepFn(d, l) ==
    CASE l.pc = "get_phenomena" -> PurgeMemberGetPhenomena(d, l)
      [] l.pc = "delete_alert" -> PurgeMemberDeleteAlert(d, l)
      [] l.pc = "get_counter" -> PurgeMemberGetCounter(d, l)
      [] l.pc = "write_counter" -> PurgeMemberWriteCounter(d, l)

\* the ids a caller can pass as alertID: the ids of forms, and any other string
AlertIDs == FormIDs \cup {"alertForms", "bounds"}

(* ------------------------- running a handler --------------------------- *)

StepFn(d, l) ==
    CASE l.op = "ingest" -> IngestStepFn(d, l)
      [] l.op = "sweep" -> SweepStepFn(d, l)
      [] l.op = "purge_bucket" -> PurgeBucketStepFn(d, l)
      [] l.op = "purge_member" -> PurgeMemberStepFn(d, l)

InFlight(l) == l.pc \notin {"idle", "done"}

Quiescent == \A p \in Procs : ~InFlight(procs[p])

(* ------------------------------ actions -------------------------------- *)

Init ==
    /\ db = EmptyDb
    /\ procs = [p \in Procs |-> Idle]
    /\ started = 0
    /\ before = EmptyDb

\* invocation p begins as l
Begun(p, l) ==
    /\ procs' = [procs EXCEPT ![p] = l]
    /\ started' = started + 1
    /\ db' = db

\* invocation p makes its next database or geocoding call
Stepped(p) ==
    LET o == StepFn(db, procs[p])
    IN  /\ db' = o.db
        /\ procs' = [procs EXCEPT ![p] = o.l]
        /\ started' = started
        /\ before' = before

StartIngest(p) ==
    \E alert_form \in AlertForms, formID \in FormIDs, geocode \in GeocodeOutcomes :
        /\ started < MaxConcOps
        /\ ~InFlight(procs[p])
        /\ Begun(p, NewIngest(alert_form, formID, geocode))
        /\ before' = before

StartSweep(p) ==
    \E method \in {"POST", "GET"}, now \in NowSet :
        /\ started < MaxConcOps
        /\ ~InFlight(procs[p])
        /\ Begun(p, NewSweep(method, now))
        /\ before' = before

StartPurgeBucket(p) ==
    \E phenomenon \in Phenomena, place \in PlaceIds :
        /\ started < MaxConcOps
        /\ ~InFlight(procs[p])
        /\ Begun(p, NewPurgeBucket(phenomenon, place))
        /\ before' = before

StartPurgeMember(p) ==
    \E phenomenon \in Phenomena, place \in PlaceIds, alert_id \in AlertIDs :
        /\ started < MaxConcOps
        /\ ~InFlight(procs[p])
        /\ Begun(p, NewPurgeMember(phenomenon, place, alert_id))
        /\ before' = before

IngestStep(p) ==
    /\ procs[p].op = "ingest"
    /\ InFlight(procs[p])
    /\ Stepped(p)

SweepStep(p) ==
    /\ procs[p].op = "sweep"
    /\ InFlight(procs[p])
    /\ Stepped(p)

PurgeBucketStep(p) ==
    /\ procs[p].op = "purge_bucket"
    /\ InFlight(procs[p])
    /\ Stepped(p)

PurgeMemberStep(p) ==
    /\ procs[p].op = "purge_member"
    /\ InFlight(procs[p])
    /\ Stepped(p)

Next ==
    \E p \in Procs :
        \/ StartIngest(p)
        \/ StartSweep(p)
        \/ StartPurgeBucket(p)
        \/ StartPurgeMember(p)
        \/ IngestStep(p)
        \/ SweepStep(p)
        \/ PurgeBucketStep(p)
        \/ PurgeMemberStep(p)

Spec == Init /\ [][Next]_vars

\* the starts of SpecSeq: the invocation before has ended; the invocation
\* runs as procs[1], by the steps of Spec
CallIngest ==
    \E alert_form \in AlertForms, formID \in FormIDs, geocode \in GeocodeOutcomes :
        /\ started < MaxSeqOps
        /\ Quiescent
        /\ Begun(1, NewIngest(alert_form, formID, geocode))
        /\ before' = db

CallSweep ==
    \E method \in {"POST", "GET"}, now \in NowSet :
        /\ started < MaxSeqOps
        /\ Quiescent
        /\ Begun(1, NewSweep(method, now))
        /\ before' = db

CallPurgeBucket ==
    \E phenomenon \in Phenomena, place \in PlaceIds :
        /\ started < MaxSeqOps
        /\ Quiescent
        /\ Begun(1, NewPurgeBucket(phenomenon, place))
        /\ before' = db

CallPurgeMember ==
    \E phenomenon \in Phenomena, place \in PlaceIds, alert_id \in AlertIDs :
        /\ started < MaxSeqOps
        /\ Quiescent
        /\ Begun(1, NewPurgeMember(phenomenon, place, alert_id))
        /\ before' = db

NextSeq ==
    \/ CallIngest
    \/ CallSweep
    \/ CallPurgeBucket
    \/ CallPurgeMember
    \/ IngestStep(1)
    \/ SweepStep(1)
    \/ PurgeBucketStep(1)
    \/ PurgeMemberStep(1)

SpecSeq == Init /\ [][NextSeq]_vars

(* ------------------------- reading the store --------------------------- *)

Buckets == Phenomena \X PlaceIds

\* the ids of the members of bucket b in store d
Members(d, b) == Keys(d, <<ALERTS, b[1], b[2], "alertForms">>)

\* the counter of bucket b in store d, an absent counter counting as 0
Counter(d, b) == GetOrZero(d, CounterPath(b[1], b[2]))

HasBounds(d, b) == BoundsPath(b[1], b[2]) \in DOMAIN d

\* nothing of bucket b is stored: no member, no bounds, no counter
BucketAbsent(d, b) == ~Exists(d, AlertsPath(b[1], b[2])) /\ ~Exists(d, CountPath(b[1], b[2]))

\* the leaves of d outside the two subtrees of bucket b
OutsideBucket(d, b) ==
    {q \in DOMAIN d : ~IsPrefix(AlertsPath(b[1], b[2]), q) /\ ~IsPrefix(CountPath(b[1], b[2]), q)}

\* d and e store the same outside bucket b
SameOutside(d, e, b) ==
    /\ OutsideBucket(d, b) = OutsideBucket(e, b)
    /\ \A q \in OutsideBucket(d, b) : d[q] = e[q]

\* l is an ingestion of a valid record whose geocoding succeeded
Stored(l) ==
    /\ l.op = "ingest"
    /\ {"location", "criticalWeatherPhenomenon", "timestamp"} \subseteq DOMAIN l.req.alert_form
    /\ ~l.req.geocode.raised

\* the bucket (phenomenon, Derive(placeName, B)) of such an ingestion
BucketOf(l) ==
    <<l.req.alert_form["criticalWeatherPhenomenon"],
      get_short_place_id(l.req.geocode.place, l.req.geocode.bounds)>>

Finished(l, op) == l.op = op /\ l.pc = "done"

\* the step of SpecSeq with which an invocation of handler op ends; the
\* invocation is procs'[1] and it began on the database PreDb
Called(op) == procs'[1] # procs[1] /\ procs'[1].op = op /\ procs'[1].pc = "done"

PreDb == IF InFlight(procs[1]) THEN before ELSE db

\* the sweep never reaches the deletion of an alert: every child of a place
\* node (alertForms, bounds) lacks the key "timestamp"
SweepNeverDeletes ==
    \A p \in Procs :
        procs[p].op = "sweep" => procs[p].pc \notin {"delete_alert", "get_counter", "write_counter"}

(* ------------------------------- claims -------------------------------- *)

\* C1: whenever no invocation is in flight, the counter of every bucket
\* equals the number of its members (an absent counter counting as 0).
C1_CounterEqualsMembers ==
    Quiescent => \A b \in Buckets : Counter(db, b) = Cardinality(Members(db, b))

\* C2: when two ingestions of distinct record ids into the same fresh bucket
\* have both finished, whatever the interleaving of their database calls,
\* both records are members and the counter is 2.
C2_NoLostUpdate ==
    ( /\ started = 2
      /\ \A p \in Procs : Finished(procs[p], "ingest") /\ Stored(procs[p])
      /\ BucketOf(procs[1]) = BucketOf(procs[2])
      /\ procs[1].req.formID # procs[2].req.formID )
    => /\ Members(db, BucketOf(procs[1])) = {procs[1].req.formID, procs[2].req.formID}
       /\ Counter(db, BucketOf(procs[1])) = 2

\* C3: an ingestion of a record id that is already a member of its bucket
\* leaves the member set and the counter of the bucket as they were.
C3_Redelivery ==
    /\ Called("ingest")
    /\ Stored(procs'[1])
    /\ procs'[1].req.formID \in Members(PreDb, BucketOf(procs'[1]))

C3_IngestIdempotent ==
    [][C3_Redelivery =>
        /\ Members(db', BucketOf(procs'[1])) = Members(PreDb, BucketOf(procs'[1]))
        /\ Counter(db', BucketOf(procs'[1])) = Counter(PreDb, BucketOf(procs'[1]))]_vars

RetentionMillis == RetentionSeconds * 1000

TimestampOf(d, b, m) == d[FormPath(b[1], b[2], m)].timestamp

\* the members of bucket b that are at least `age` ms old at time now
Aged(d, b, now, age) == {m \in Members(d, b) : now - TimestampOf(d, b, m) >= age}

PostSweep == Called("sweep") /\ procs'[1].req.method = "POST"

\* C4: a sweep at time now removes from every bucket exactly the members
\* whose age is at least 86,400,000 ms, lowers the counter by the number
\* removed, and leaves the other members and the bounds of a bucket that keeps
\* members as they were.
C4_SweepEvictsExactlyExpired ==
    [][PostSweep =>
        \A b \in Buckets :
            LET gone == Aged(PreDb, b, procs'[1].req.now, RetentionMillis)
                kept == Members(PreDb, b) \ gone
            IN  /\ Members(db', b) = kept
                /\ Counter(db', b) = Counter(PreDb, b) - Cardinality(gone)
                /\ \A m \in kept :
                      db'[FormPath(b[1], b[2], m)] = PreDb[FormPath(b[1], b[2], m)]
                /\ kept # {} /\ HasBounds(PreDb, b) =>
                      /\ HasBounds(db', b)
                      /\ db'[BoundsPath(b[1], b[2])] = PreDb[BoundsPath(b[1], b[2])]]_vars

\* C5: when a sweep or a PurgeMember removes the last member of a bucket,
\* nothing of the bucket remains: no member, no bounds, no counter.
C5_LastMemberRemovesBucket ==
    [][Called("sweep") \/ Called("purge_member") =>
        \A b \in Buckets :
            Members(PreDb, b) # {} /\ Members(db', b) = {} => BucketAbsent(db', b)]_vars

\* l is an ingestion of a record with location and phenomenon whose
\* geocoding succeeded
ValidRecord(l) ==
    /\ l.op = "ingest"
    /\ {"location", "criticalWeatherPhenomenon"} \subseteq DOMAIN l.req.alert_form
    /\ ~l.req.geocode.raised

\* the bucket of such an ingestion does not exist: the place node of line 131
\* is absent, as for PurgeBucket (C8)
C6_FreshIngest ==
    /\ Called("ingest")
    /\ ValidRecord(procs'[1])
    /\ ~Exists(PreDb, AlertsPath(BucketOf(procs'[1])[1], BucketOf(procs'[1])[2]))

\* C6: an ingestion of a valid record (location and phenomenon present,
\* geocoded to (placeName, B)) whose bucket does not exist creates the bucket
\* with bounds B, the record as its only member and counter 1, and changes
\* nothing else.
C6_FreshIngestCreatesBucket ==
    [][C6_FreshIngest =>
        LET l == procs'[1]
            b == BucketOf(l)
            form == l.req.alert_form
            member == db'[FormPath(b[1], b[2], l.req.formID)]
        IN  /\ Members(db', b) = {l.req.formID}
            /\ member.location = form.location
            /\ "timestamp" \in DOMAIN form => member.timestamp = form.timestamp
            /\ member.criticalLevel = form.criticalLevel
            /\ member.message = form.message
            /\ member.imageURL = form.imageURL
            /\ Keys(db', AlertsPath(b[1], b[2])) = {"alertForms", "bounds"}
            /\ db'[BoundsPath(b[1], b[2])] = l.req.geocode.bounds
            /\ Keys(db', CountPath(b[1], b[2])) = {"counter"}
            /\ db'[CounterPath(b[1], b[2])] = 1
            /\ SameOutside(PreDb, db', b)]_vars

\* C7: a sweep completes without error; it removes entirely (members,
\* bounds, counter) every bucket all of whose members are more than 24 h old
\* (T + 86,400,001 ms for a record of timestamp T), and a sweep that finds no
\* member old enough changes no bucket, member or counter.
C7_SweepRemovesOldBucketAndIsIdempotent ==
    [][PostSweep =>
        LET l == procs'[1]
        IN  /\ l.result.raised = ""
            /\ l.result.value.status = 200
            /\ \A b \in Buckets :
                  /\ Members(PreDb, b) # {}
                  /\ Aged(PreDb, b, l.req.now, RetentionMillis + 1) = Members(PreDb, b)
                  => BucketAbsent(db', b)
            /\ (\A b \in Buckets : Aged(PreDb, b, l.req.now, RetentionMillis) = {})
                  => /\ Below(db', <<ALERTS>>) = Below(PreDb, <<ALERTS>>)
                     /\ Below(db', <<COUNTS>>) = Below(PreDb, <<COUNTS>>)
                     /\ \A q \in Below(PreDb, <<ALERTS>>) \cup Below(PreDb, <<COUNTS>>) :
                           db'[q] = PreDb[q]]_vars

\* C8: PurgeBucket on an existing bucket returns success and removes its
\* members, bounds and counter; on a missing phenomenon, and on a missing
\* bucket of an existing phenomenon, it returns the not-found result of that
\* level and leaves the store unchanged.
C8_PurgeBucket ==
    [][Called("purge_bucket") =>
        LET l == procs'[1]
            b == <<l.req.phenomenon, l.req.place>>
        IN  IF Exists(PreDb, AlertsPath(b[1], b[2]))
            THEN /\ l.result.value = Success
                 /\ BucketAbsent(db', b)
                 /\ Members(db', b) = {} /\ ~HasBounds(db', b) /\ Counter(db', b) = 0
            ELSE /\ db' = PreDb
                 /\ l.result.value =
                        IF Exists(PreDb, <<ALERTS, b[1]>>)
                        THEN Failure("Place not found")
                        ELSE Failure("Phenomenon not found")]_vars

\* a PurgeBucket has succeeded on a bucket that had members and a counter
C8_Witness ==
    /\ started = 2
    /\ Finished(procs[1], "purge_bucket")
    /\ procs[1].result.value = Success
    /\ db = EmptyDb

\* C9: PurgeMember with the id of a member of the bucket returns success,
\* removes exactly that member, lowers the counter by one and leaves the
\* other members and the bounds as they were; when the record was the only
\* member, nothing of the bucket remains.
C9_PurgeMemberRemovesMember ==
    [][Called("purge_member") =>
        LET l == procs'[1]
            b == <<l.req.phenomenon, l.req.place>>
            others == Members(PreDb, b) \ {l.req.alertID}
        IN  l.req.alertID \in Members(PreDb, b) =>
              /\ l.result.value = Success
              /\ Members(db', b) = others
              /\ Counter(db', b) = Counter(PreDb, b) - 1
              /\ \A m \in others :
                    db'[FormPath(b[1], b[2], m)] = PreDb[FormPath(b[1], b[2], m)]
              /\ others # {} /\ HasBounds(PreDb, b) =>
                    /\ HasBounds(db', b)
                    /\ db'[BoundsPath(b[1], b[2])] = PreDb[BoundsPath(b[1], b[2])]
              /\ others = {} => BucketAbsent(db', b)]_vars

\* the level at which PurgeMember's target is missing in d, "" when the
\* record is a member of the bucket
MissingLevel(d, req) ==
    IF ~Exists(d, <<ALERTS, req.phenomenon>>) THEN "Phenomenon not found"
    ELSE IF ~Exists(d, AlertsPath(req.phenomenon, req.place)) THEN "Place not found"
    ELSE IF req.alertID \notin Members(d, <<req.phenomenon, req.place>>) THEN "Alert not found"
    ELSE ""

NotFoundMessages == {"Phenomenon not found", "Place not found", "Alert not found"}

\* C10: PurgeMember returns a not-found result and changes nothing exactly
\* when the phenomenon, the bucket or the member is missing, and the result
\* names the first missing level.
C10_PurgeMemberNotFound ==
    [][Called("purge_member") =>
        LET l == procs'[1]
            level == MissingLevel(PreDb, l.req)
        IN  IF level # ""
            THEN l.result.value = Failure(level) /\ db' = PreDb
            ELSE l.result.value.message \notin NotFoundMessages]_vars

\* C11: a sweep request whose method is not POST is answered with a client
\* error status (4xx) and changes nothing in the database: members, bounds,
\* counters and the recorded sweep metrics are as they were.
C11_NonPostSweepRejected ==
    [][\A p \in Procs :
          ( /\ procs'[p] # procs[p]
            /\ procs'[p].op = "sweep"
            /\ procs'[p].req.method # "POST" )
          => /\ procs'[p].pc = "done"
             /\ procs'[p].result.raised = ""
             /\ procs'[p].result.value.status \in 400..499
             /\ db' = db]_vars

\* a GET sweep was answered 405 while the database held a member and the
\* ingestion of that member was under way
C11_Witness ==
    \E p \in Procs :
        /\ Finished(procs[p], "sweep")
        /\ procs[p].req.method = "GET"
        /\ procs[p].result.value.status = 405
        /\ procs[3 - p].op = "ingest"
        /\ InFlight(procs[3 - p])
        /\ \E b \in Buckets : Members(db, b) # {}

\* C12: the member set of a bucket and its counter change together: no step
\* of any handler, taken while other invocations are in flight or not, adds
\* or removes a member of a bucket without writing the matching change of the
\* counter in the same step, so that a reader between two steps never sees
\* a member set that the counter does not yet reflect.
C12_MemberAndCounterChangeTogether ==
    [][\A b \in Buckets :
          Cardinality(Members(db', b)) - Cardinality(Members(db, b))
              = Counter(db', b) - Counter(db, b)]_vars

\* a step of the sweep invocation p, from the read of its snapshot on
SweepActs(p) ==
    /\ procs[p].op = "sweep"
    /\ InFlight(procs[p])
    /\ procs'[p] # procs[p]

\* C13: a sweep that runs while ingestions run takes nothing away from what
\* they add: no step of a sweep, from the read of its snapshot to its end,
\* removes a member or lowers a counter, so a member added after the snapshot
\* was read is still a member and still counted when the sweep has finished.
C13_SweepKeepsLaterMembers ==
    [][\A p \in Procs :
          SweepActs(p) =>
              \A b \in Buckets :
                  /\ Members(db, b) \subseteq Members(db', b)
                  /\ \A m \in Members(db, b) :
                        db'[FormPath(b[1], b[2], m)] = db[FormPath(b[1], b[2], m)]
                  /\ Counter(db', b) >= Counter(db, b)]_vars

\* a sweep has read its snapshot (empty, both invocations began on the empty
\* database) and has its last write ahead, and the ingestion that ran
\* meanwhile has stored and counted its record
C13_Witness ==
    \E p \in Procs :
        /\ started = 2
        /\ procs[p].op = "sweep"
        /\ procs[p].pc = "set_num_deleted"
        /\ Finished(procs[3 - p], "ingest")
        /\ Stored(procs[3 - p])
        /\ procs[3 - p].req.formID \in Members(db, BucketOf(procs[3 - p]))
        /\ Counter(db, BucketOf(procs[3 - p])) = 1


\* an ingestion whose record lacks location or phenomenon, or whose geocoding
\* raises
Invalid(l) ==
    /\ l.op = "ingest"
    /\ \/ "location" \notin DOMAIN l.req.alert_form
       \/ "criticalWeatherPhenomenon" \notin DOMAIN l.req.alert_form
       \/ l.req.geocode.raised

\* C15: an ingestion of a record without location or without phenomenon, or
\* whose geocoding fails, is dropped: the handler returns without an
\* exception and the database (members, bounds, counters) is unchanged.
C15_InvalidIngestDropped ==
    [][Called("ingest") /\ Invalid(procs'[1]) =>
        /\ procs'[1].pc = "done"
        /\ procs'[1].result.raised = ""
        /\ db' = PreDb]_vars


(* ------------------- an ingestion that ends half way -------------------- *)

\* the database calls of categorize_and_store_alert, in the order of the code
IngestStoreCalls == {"get_place", "set_form", "set_bounds", "get_counter", "set_counter"}

\* the database call at l.pc raises (the database cannot be reached): nothing
\* is written, the except of line 159 prints the exception and the handler
\* returns, the writes made before staying as they are
IngestCallRaises(d, l) == Out(d, Return(l, "None"))

\* a database call of the running ingestion raises
IngestRaises ==
    /\ procs[1].op = "ingest"
    /\ procs[1].pc \in IngestStoreCalls
    /\ db' = IngestCallRaises(db, procs[1]).db
    /\ procs' = [procs EXCEPT ![1] = IngestCallRaises(db, procs[1]).l]
    /\ started' = started
    /\ before' = before

\* ingestions one after the other, each running to its end or ending at a
\* database call that raises
NextAbandon == CallIngest \/ IngestStep(1) \/ IngestRaises

SpecAbandon == Init /\ [][NextAbandon]_vars

\* every bucket with members has bounds and every counter is the number of
\* members of its bucket
Valid(d) ==
    \A b \in Buckets :
        /\ Members(d, b) # {} => HasBounds(d, b)
        /\ Counter(d, b) = Cardinality(Members(d, b))

\* the step with which an ingestion ends at a database call that raised
Abandoned ==
    /\ Called("ingest")
    /\ procs[1].pc \in IngestStoreCalls
    /\ db' = db

\* C16: an ingestion of a new record that ends after any of its writes (the
\* member, the bounds, the counter), run on a valid database, leaves a valid
\* database: every bucket with members has bounds and every counter equals
\* the number of members; at most a bucket with bounds and no member is left.
C16_AbandonedIngestLeavesValidStore ==
    [][( /\ Abandoned
         /\ Stored(procs'[1])
         /\ procs'[1].req.formID \notin Members(PreDb, BucketOf(procs'[1]))
         /\ Valid(PreDb) )
       => Valid(db')]_vars

\* the number of members stored in d, all buckets together
TotalMembers(d) ==
    Cardinality({bm \in Buckets \X FormIDs : bm[2] \in Members(d, bm[1])})

SweepCompleted(l) ==
    /\ Finished(l, "sweep")
    /\ l.req.method = "POST"
    /\ l.result.raised = ""
    /\ l.result.value.status = 200

\* C17: when a sweep run without a concurrent operation completes, the
\* recorded number of removed members is the number of members it deleted
\* (members before minus members after) and the recorded sweep time is the
\* time at which it evaluated the ages.
C17_SweepMetrics ==
    [][Called("sweep") /\ SweepCompleted(procs'[1]) =>
        /\ <<"lastNumOfDeletedAlerts">> \in DOMAIN db'
        /\ db'[<<"lastNumOfDeletedAlerts">>] = TotalMembers(PreDb) - TotalMembers(db')
        /\ <<"lastCleanupTimestamp">> \in DOMAIN db'
        /\ db'[<<"lastCleanupTimestamp">>] = procs'[1].req.now]_vars

\* a sweep completed after two other handler runs and recorded its metrics
C17_Witness ==
    /\ started = 3
    /\ SweepCompleted(procs[1])
    /\ db[<<"lastCleanupTimestamp">>] = procs[1].req.now
    /\ db[<<"lastNumOfDeletedAlerts">>] = 0

\* C18: the bounds of a bucket never change while the bucket exists: a
\* handler run (an ingestion into the bucket, a sweep or a PurgeMember) that
\* leaves a bucket with bounds non-empty leaves its bounds stored and equal to
\* what they were.
C18_BoundsImmutable ==
    [][\A b \in Buckets :
          HasBounds(db, b) /\ Members(db', b) # {} =>
              /\ HasBounds(db', b)
              /\ db'[BoundsPath(b[1], b[2])] = db[BoundsPath(b[1], b[2])]]_vars

\* C19: in every reachable state of the database, invocations in flight or
\* not, everything stored under the counts is the counter of a bucket and is
\* an integer of at least 1: a counter is never stored as 0 or negative.
C19_StoredCounterPositive ==
    \A path \in DOMAIN db :
        path[1] = COUNTS =>
            /\ \E b \in Buckets : path = CounterPath(b[1], b[2])
            /\ db[path] \in Int
            /\ db[path] >= 1

\* a PurgeMember has deleted a node of a bucket and gone on to the decrement
\* of lines 277-283, and the counter of the bucket is stored
C19_Witness ==
    \E p \in Procs :
        /\ Finished(procs[p], "purge_member")
        /\ procs[p].result.value # Failure("Alert not found")
        /\ procs[p].result.value # Failure("Place not found")
        /\ procs[p].result.value # Failure("Phenomenon not found")
        /\ CounterPath(procs[p].req.phenomenon, procs[p].req.place) \in DOMAIN db

\* a database call of the purge invocation p
PurgeActs(p) ==
    /\ procs[p].op \in {"purge_bucket", "purge_member"}
    /\ InFlight(procs[p])
    /\ procs'[p] # procs[p]

\* C20: PurgeBucket(phenomenon, bucketId) and PurgeMember(phenomenon,
\* bucketId, memberId) change nothing outside the bucket (phenomenon,
\* bucketId): no call of theirs changes the members, the bounds or the
\* counter of another bucket, whatever the outcome of the invocation.
C20_PurgeTouchesOnlyItsBucket ==
    [][\A p \in Procs :
          PurgeActs(p) =>
              /\ SameOutside(db, db', <<procs[p].req.phenomenon, procs[p].req.place>>)
              /\ \A b \in Buckets \ {<<procs[p].req.phenomenon, procs[p].req.place>>} :
                    /\ Members(db', b) = Members(db, b)
                    /\ HasBounds(db', b) = HasBounds(db, b)
                    /\ Counter(db', b) = Counter(db, b)]_vars

\* a PurgeBucket removed its bucket while another bucket of the same
\* phenomenon was stored, which still has its member, bounds and counter
C20_Witness ==
    /\ Finished(procs[1], "purge_bucket")
    /\ procs[1].result.value = Success
    /\ BucketAbsent(db, <<procs[1].req.phenomenon, procs[1].req.place>>)
    /\ \E b \in Buckets :
          /\ b[1] = procs[1].req.phenomenon
          /\ b[2] # procs[1].req.place
          /\ Members(db, b) # {}
          /\ HasBounds(db, b)
          /\ Counter(db, b) = 1

====
